---- MODULE Spec2Model ----
(***************************************************************************)
(* Model of the dynamic memory manager of lab-3-memory (memmgr.c): an      *)
(* implicit free list with boundary tags over a data segment that grows    *)
(* and shrinks at its high end, with first-fit, next-fit and best-fit      *)
(* block selection.                                                        *)
(*                                                                         *)
(* Addresses are byte addresses (integers); the memory is a map from the   *)
(* addresses of the 8-byte words that have been written to their values.   *)
(* A word that was never written reads as `fill`, whatever the data        *)
(* segment held when it was handed out.                                    *)
(***************************************************************************)
EXTENDS Integers, Sequences, FiniteSets, TLC

VARIABLES
  mem,            \* written words of the data segment: address -> value
  fill,           \* value read from a word that was never written
  ds_heap_start,  \* physical start of the data segment
  ds_heap_brk,    \* physical end (break) of the data segment
  heap_start,     \* logical start of the heap
  heap_end,       \* logical end of the heap
  get_free_block, \* selected allocation policy
  next_block,     \* cursor of the next-fit policy
  mm_initialized, \* initialized flag
  pc,             \* "run", "hung" (a call that never returns) or "exit"
  live,           \* allocations handed out and not released: [ptr, n]
  released,       \* pointers that were released and not handed out again
  ncalls,         \* number of public calls made after init
  last,           \* the last public call: operation, arguments, result
  sh,             \* the shell: eval, its children, the job list, SIGCHLD
  mc              \* the burger server: order list, clients, kitchen threads

\* the variables of the memory manager and of its caller
mmvars == <<mem, fill, ds_heap_start, ds_heap_brk, heap_start, heap_end,
            get_free_block, next_block, mm_initialized, pc, live, released,
            ncalls, last>>

vars == <<mem, fill, ds_heap_start, ds_heap_brk, heap_start, heap_end,
          get_free_block, next_block, mm_initialized, pc, live, released,
          ncalls, last, sh, mc>>

----------------------------------------------------------------------------
(* Program constants (memmgr.c)                                            *)

NULL == 0
CHUNKSIZE == 1024
SHRINKTHLD == 1024
TYPE_SIZE == 8
ALLOC == 1
FREE == 0
STATUS_MASK == 7
BS == 32

(* Bounds of the model                                                     *)

\* the data segment holds at most DsMaxChunks * CHUNKSIZE bytes
DsMaxChunks == 2
\* at most MaxLive allocations are live at a time
MaxLive == 3
\* the caller makes at most MaxCalls calls and payload writes after init
MaxCalls == 3
\* ... and at most MaxCallsMF calls when it only allocates and releases
MaxCallsMF == 6
\* ... and at most MaxCallsBig calls when it asks for sizes near SIZE_MAX
MaxCallsBig == 3
\* ... and at most MaxCallsChk calls when it also checks the consistency
MaxCallsChk == 3
\* public calls in one behaviour of the caller that resizes
MaxCallsRz == 4
\* the shell runs command lines of at most MaxCmd piped commands
MaxCmd == 2
\* the burger server serves MaxClients customers ...
MaxClients == 2
\* ... with MaxKitchen of its kitchen threads taking part
MaxKitchen == 2
\* the unsigned int of the order count is CountBits wide
CountBits == 8
\* ... and at most MaxCallsAny calls when the data segment starts anywhere
MaxCallsAny == 2
\* size_t arithmetic is kept modulo 2^SizeBits (64 bits in the program; the
\* heap, like the program's, is far smaller than the range of the type)
SizeBits == 16

\* start address of the data segment (page aligned)
DsStarts == {4096}
\* start addresses of a data segment that is word aligned only
DsStartsAny == {4096, 4104, 4112, 4120}
\* values a never-written word may hold
FillVals == {0, 64}
\* request sizes passed to allocate / resize
ReqSizes == {0, 8, 40, 1000}
\* request sizes of the caller that only allocates and releases
ReqSizesMF == {8, 40, 900}
\* request sizes at the top of the range of size_t: SIZE_MAX - 15, SIZE_MAX - 7
ReqSizesBig == {8, 2^SizeBits - 16, 2^SizeBits - 8}
\* (count, element size) pairs passed to zeroAllocate
CallocArgs == {<<1, 8>>, <<5, 8>>}
\* words the caller stores into its payload, and the payload offsets it uses
PayloadVals == {64}
WriteOffsets == {0, 24}

Policies == {"ff", "nf", "bf"}

----------------------------------------------------------------------------
(* The allocator state as one record, so that the operations are functions *)
(* from state (and arguments) to state (and result). The field sbrk_calls  *)
(* counts the calls of ds_sbrk made since the public call began, and oob   *)
(* tells whether the call has read or written a tag outside the data       *)
(* segment.                                                                *)

Cur ==
  [mem |-> mem, fill |-> fill, ds_heap_start |-> ds_heap_start,
   ds_heap_brk |-> ds_heap_brk, heap_start |-> heap_start,
   heap_end |-> heap_end, get_free_block |-> get_free_block,
   next_block |-> next_block, mm_initialized |-> mm_initialized, pc |-> pc,
   sbrk_calls |-> 0, oob |-> FALSE]

MAX(a, b) == IF a > b THEN a ELSE b

PACK(size, status) == size + status
SIZE(v) == v - (v % (STATUS_MASK + 1))
STATUS(v) == v % (STATUS_MASK + 1)

\* the word at p lies in the data segment [ds_heap_start, ds_heap_brk)
InSeg(s, p) == p >= s.ds_heap_start /\ p + TYPE_SIZE <= s.ds_heap_brk
\* the state after the tag at p has been read
RD(s, p) == [s EXCEPT !.oob = @ \/ ~InSeg(s, p)]

GET(s, p) == IF p \in DOMAIN s.mem THEN s.mem[p] ELSE s.fill
PUT(s, p, v) == [s EXCEPT !.mem = (p :> v) @@ s.mem, !.oob = @ \/ ~InSeg(s, p)]
GET_SIZE(s, p) == SIZE(GET(s, p))
GET_STATUS(s, p) == STATUS(GET(s, p))

PREV_PTR(p) == p - TYPE_SIZE
NEXT_PTR(p) == p + TYPE_SIZE
HDR2FTR(s, p) == p + GET_SIZE(s, p) - TYPE_SIZE
FTR2HDR(s, p) == p - GET_SIZE(s, p) + TYPE_SIZE
\* a value of type size_t
SIZE_T(x) == x % (2^SizeBits)
ROUND_UP(w) == (SIZE_T(w + BS - 1) \div BS) * BS
NEXT_BLK(s, p) == p + GET_SIZE(s, p)
NEXT_BLK_FROM_PAYLOAD(s, p) == p + GET_SIZE(s, PREV_PTR(p))

----------------------------------------------------------------------------
(* The data segment (dataseg module, an external collaborator): the range  *)
(* [ds_heap_start, ds_heap_brk) grows or shrinks at its high end by the    *)
(* requested number of bytes; a request that would leave the segment's     *)
(* capacity, or go below its start, fails and changes nothing.             *)

ds_heap_max(s) == s.ds_heap_start + DsMaxChunks * CHUNKSIZE

ds_sbrk(s, increment) ==
  LET new_brk == s.ds_heap_brk + increment IN
  IF new_brk < s.ds_heap_start \/ new_brk > ds_heap_max(s)
    THEN [s |-> [s EXCEPT !.sbrk_calls = @ + 1], ret |-> NULL]
    ELSE [s |-> [s EXCEPT !.ds_heap_brk = new_brk, !.sbrk_calls = @ + 1],
          ret |-> new_brk]

----------------------------------------------------------------------------
(* mm_init                                                                 *)

\* mm_init that rounds heap_start up only if the start is not yet aligned
mm_init_aligned(s, ap) ==
  LET s0 == [s EXCEPT !.get_free_block = ap] IN
  IF s0.ds_heap_start # s0.ds_heap_brk
    THEN [s0 EXCEPT !.pc = "exit"]
    ELSE
      LET s1 == ds_sbrk(s0, CHUNKSIZE).s
          hs == ((s1.ds_heap_start + BS - 1) \div BS) * BS
          he == ((s1.ds_heap_brk - TYPE_SIZE) \div BS) * BS
          s2 == [s1 EXCEPT !.heap_start = hs, !.heap_end = he]
      IN [PUT(PUT(PUT(PUT(s2, PREV_PTR(hs), PACK(0, ALLOC)),
                          hs, PACK(he - hs, FREE)),
                      PREV_PTR(he), PACK(he - hs, FREE)),
                  he, PACK(0, ALLOC))
            EXCEPT !.mm_initialized = 1]

mm_init(s, ap) ==
  LET s0 == [s EXCEPT !.get_free_block = ap] IN
  IF s0.ds_heap_start # s0.ds_heap_brk
    THEN [s0 EXCEPT !.pc = "exit"]                       \* PANIC("Heap not clean.")
    ELSE
      LET s1 == ds_sbrk(s0, CHUNKSIZE).s
          hs == (s1.ds_heap_start \div BS + 1) * BS
          he == ((s1.ds_heap_brk - TYPE_SIZE) \div BS) * BS
          s2 == [s1 EXCEPT !.heap_start = hs, !.heap_end = he]
          s3 == PUT(s2, PREV_PTR(hs), PACK(0, ALLOC))
          initial_free_block_size == he - hs
          s4 == PUT(s3, hs, PACK(initial_free_block_size, FREE))
          s5 == PUT(s4, PREV_PTR(he), PACK(initial_free_block_size, FREE))
          s6 == PUT(s5, he, PACK(0, ALLOC))
      IN [s6 EXCEPT !.mm_initialized = 1]

----------------------------------------------------------------------------
(* Block selection policies. Each returns [s, ret]: the state (only the    *)
(* next-fit cursor can differ) and the header address found, or NULL. A    *)
(* scan that never ends leaves pc = "hung".                                *)

Fits(s, p, size) == GET_STATUS(s, p) = 0 /\ GET_SIZE(s, p) >= size

RECURSIVE ff_scan(_, _, _)
ff_scan(s, size, current_block) ==
  IF ~(current_block < s.heap_end) THEN [s |-> s, ret |-> NULL]
  ELSE IF Fits(s, current_block, size)
    THEN [s |-> RD(s, current_block), ret |-> current_block]
  ELSE IF GET_SIZE(s, current_block) = 0
    THEN [s |-> [RD(s, current_block) EXCEPT !.pc = "hung"],
          ret |-> NULL]                                   \* current_block += 0 for ever
  ELSE ff_scan(RD(s, current_block), size,
               current_block + GET_SIZE(s, current_block))

\* ff_get_free_block that leaves the block it found in the next-fit cursor
ff_sets_cursor(s, size) ==
  [s |-> [s EXCEPT !.next_block = ff_scan(s, size, s.heap_start).ret],
   ret |-> ff_scan(s, size, s.heap_start).ret]

\* ff_get_free_block that takes the first free block whatever its size
ff_first_free(s, size) == ff_scan(s, 0, s.heap_start)

ff_get_free_block(s, size) == ff_scan(s, size, s.heap_start)

\* the loop of nf_get_free_block; `seen` holds the cursor values the loop
\* has already tested, so a cursor value met again (other than the initial
\* one, which ends the loop) means the loop never ends
RECURSIVE nf_scan(_, _, _, _)
nf_scan(s, size, initial_next_block, seen) ==
  IF Fits(s, s.next_block, size)
    THEN [s |-> RD(s, s.next_block), ret |-> s.next_block]
  ELSE
    LET nb1 == s.next_block + GET_SIZE(s, s.next_block)
        nb2 == IF nb1 >= s.heap_end THEN s.heap_start ELSE nb1
        s1 == [RD(s, s.next_block) EXCEPT !.next_block = nb2]
    IN IF nb2 = initial_next_block THEN [s |-> s1, ret |-> NULL]
       ELSE IF nb2 \in seen THEN [s |-> [s1 EXCEPT !.pc = "hung"], ret |-> NULL]
       ELSE nf_scan(s1, size, initial_next_block, seen \cup {nb2})

nf_get_free_block(s, size) ==
  LET s0 == IF s.next_block = NULL \/ s.next_block >= s.heap_end
              THEN [s EXCEPT !.next_block = s.heap_start] ELSE s
  IN nf_scan(s0, size, s0.next_block, {s0.next_block})

\* the loop of bf_get_free_block; smallest_diff = -1 stands for SIZE_MAX
RECURSIVE bf_scan(_, _, _, _, _)
bf_scan(s, size, current_block, best_fit_block, smallest_diff) ==
  IF ~(current_block < s.heap_end) THEN [s |-> s, ret |-> best_fit_block]
  ELSE
    LET current_size == GET_SIZE(s, current_block)
        better == /\ GET_STATUS(s, current_block) = 0
                  /\ current_size >= size
                  /\ (smallest_diff = -1 \/ current_size - size < smallest_diff)
        best == IF better THEN current_block ELSE best_fit_block
        diff == IF better THEN current_size - size ELSE smallest_diff
    IN IF better /\ diff = 0 THEN [s |-> RD(s, current_block), ret |-> best]
       ELSE IF current_size = 0
         THEN [s |-> [RD(s, current_block) EXCEPT !.pc = "hung"], ret |-> NULL]
       ELSE bf_scan(RD(s, current_block), size, current_block + current_size,
                    best, diff)

\* the value of current_block when the loop of bf_get_free_block ends: the
\* block of the exact match at the break, else the address at or above
\* heap_end where the walk stops (NULL when the loop never ends)
RECURSIVE bf_scan_end(_, _, _, _)
bf_scan_end(s, size, current_block, smallest_diff) ==
  IF ~(current_block < s.heap_end) THEN current_block
  ELSE IF /\ Fits(s, current_block, size)
          /\ (smallest_diff = -1 \/ GET_SIZE(s, current_block) - size < smallest_diff)
          /\ GET_SIZE(s, current_block) - size = 0
    THEN current_block
  ELSE IF GET_SIZE(s, current_block) = 0 THEN NULL
  ELSE bf_scan_end(s, size, current_block + GET_SIZE(s, current_block),
         IF Fits(s, current_block, size)
            /\ (smallest_diff = -1 \/ GET_SIZE(s, current_block) - size < smallest_diff)
           THEN GET_SIZE(s, current_block) - size ELSE smallest_diff)

\* bf_get_free_block that takes the first block that is large enough
bf_first_fit(s, size) == ff_scan(s, size, s.heap_start)

bf_get_free_block(s, size) == bf_scan(s, size, s.heap_start, NULL, -1)

find_free_block(s, size) ==
  CASE s.get_free_block = "ff" -> ff_get_free_block(s, size)
    [] s.get_free_block = "nf" -> nf_get_free_block(s, size)
    [] s.get_free_block = "bf" -> bf_get_free_block(s, size)

----------------------------------------------------------------------------
(* mm_malloc, mm_calloc, mm_realloc, mm_free. Each returns [s, ret]; the   *)
(* steps of a function are operators from the state before the step to the *)
(* state after it, applied in the order of the statements.                 *)

\* the words of the byte range [p, p + n)
Words(p, n) == {a \in p .. (p + n - 1) : (a - p) % TYPE_SIZE = 0}

\* PUT(HDR2FTR(p), v)
PUT_FTR(s, p, v) == PUT(RD(s, p), HDR2FTR(s, p), v)
\* PUT(FTR2HDR(HDR2FTR(p)), v)
PUT_FTR_HDR(s, p, v) ==
  PUT(RD(RD(s, p), HDR2FTR(s, p)), FTR2HDR(s, HDR2FTR(s, p)), v)
\* PUT(p, v); PUT(HDR2FTR(p), v)
write_tags(s, p, v) == PUT_FTR(PUT(s, p, v), p, v)

\* lines 294-301 of mm_malloc: tags of the new free block, end sentinel
grow_write(s, blk, expanded_block_size) ==
  [s |-> PUT(write_tags(s, blk, PACK(expanded_block_size, FREE)),
             s.heap_end, PACK(0, ALLOC)),
   ret |-> blk]

\* grow_merge that never merges the new block with a free last block
grow_no_merge(s, old_heap_end) ==
  grow_write(s, old_heap_end, s.heap_end - old_heap_end)

\* lines 284-293 of mm_malloc: the new block, merged with a free last block
grow_merge(s, old_heap_end) ==
  LET prev_block == PREV_PTR(old_heap_end)
      expanded_block_size == s.heap_end - old_heap_end
  IN IF GET_STATUS(s, prev_block) = FREE
       THEN grow_write(RD(s, prev_block), old_heap_end - GET_SIZE(s, prev_block),
                       expanded_block_size + GET_SIZE(s, prev_block))
       ELSE grow_write(RD(s, prev_block), old_heap_end, expanded_block_size)

\* grow_heap that puts heap_end one block below the old one
grow_heap_below(s1, old_heap_end) ==
  grow_merge([s1 EXCEPT !.heap_end = old_heap_end - BS], old_heap_end)

\* lines 275-301 of mm_malloc: the heap after the data segment has grown
grow_heap(s1, old_heap_end) ==
  grow_merge([s1 EXCEPT !.heap_end = ((s1.ds_heap_brk - TYPE_SIZE) \div BS) * BS],
             old_heap_end)

\* expand_heap without the test of ds_sbrk's result
expand_heap_unchecked(s, blocksize) ==
  grow_heap(ds_sbrk(s, MAX(CHUNKSIZE, blocksize)).s, s.heap_end)

\* lines 263-302 of mm_malloc: no block found, expand the heap
expand_heap(s, blocksize) ==
  LET old_heap_end == s.heap_end
      expand_size == MAX(CHUNKSIZE, blocksize)
      r == ds_sbrk(s, expand_size)
  IN IF r.ret = NULL THEN [s |-> r.s, ret |-> NULL]
     ELSE grow_heap(r.s, old_heap_end)

\* lines 312-314 of mm_malloc: the remainder of a split block
split_block(s, free_block, remainder_size) ==
  write_tags(s, NEXT_BLK(s, free_block), PACK(remainder_size, FREE))

\* place_block that splits off the high end of the free block
place_block_high(s, free_block, blocksize) ==
  IF GET_SIZE(s, free_block) >= SIZE_T(blocksize + 4 * TYPE_SIZE)
    THEN [s |-> write_tags(
                  write_tags(s, free_block,
                             PACK(GET_SIZE(s, free_block) - blocksize, FREE)),
                  free_block + GET_SIZE(s, free_block) - blocksize,
                  PACK(blocksize, ALLOC)),
          ret |-> free_block + GET_SIZE(s, free_block) - blocksize + TYPE_SIZE]
    ELSE [s |-> write_tags(s, free_block, PACK(GET_SIZE(s, free_block), ALLOC)),
          ret |-> free_block + TYPE_SIZE]

\* place_block that never splits
place_block_whole(s, free_block, blocksize) ==
  [s |-> write_tags(s, free_block, PACK(GET_SIZE(s, free_block), ALLOC)),
   ret |-> free_block + TYPE_SIZE]

\* lines 304-320 of mm_malloc: split the free block or take it whole
place_block(s, free_block, blocksize) ==
  LET free_block_size == GET_SIZE(s, free_block) IN
  IF free_block_size >= SIZE_T(blocksize + 4 * TYPE_SIZE)
    THEN [s |-> split_block(write_tags(RD(s, free_block), free_block,
                                       PACK(blocksize, ALLOC)),
                            free_block, free_block_size - blocksize),
          ret |-> free_block + TYPE_SIZE]
    ELSE [s |-> write_tags(RD(s, free_block), free_block,
                           PACK(free_block_size, ALLOC)),
          ret |-> free_block + TYPE_SIZE]

\* lines 272-274 and 304-320 of mm_malloc: e is the result of expand_heap
place_expanded(e, blocksize) ==
  IF e.ret = NULL THEN e ELSE place_block(e.s, e.ret, blocksize)

\* lines 263-320 of mm_malloc: f is the result of the policy
place_found(f, blocksize) ==
  IF f.s.pc # "run" THEN f
  ELSE IF f.ret # NULL THEN place_block(f.s, f.ret, blocksize)
  ELSE place_expanded(expand_heap(f.s, blocksize), blocksize)

\* lines 258-320 of mm_malloc: find or make a free block, and place
malloc_block(s, size) ==
  place_found(find_free_block(s, ROUND_UP(TYPE_SIZE + size + TYPE_SIZE)),
              ROUND_UP(TYPE_SIZE + size + TYPE_SIZE))

\* mm_malloc without the test for size 0
mm_malloc_nozero(s, size) == malloc_block(s, size)

mm_malloc(s, size) ==
  IF size = 0 THEN [s |-> s, ret |-> NULL]
  ELSE malloc_block(s, size)

\* memset that clears the first word only
memset0_first_word(s, p, n) == [s EXCEPT !.mem = (p :> 0) @@ s.mem]

\* memset(p, 0, n), word by word
memset0(s, p, n) ==
  [s EXCEPT !.mem = [a \in DOMAIN s.mem \cup Words(p, n) |->
                       IF a \in Words(p, n) THEN 0 ELSE s.mem[a]]]

\* line 334 of mm_calloc: r is the result of mm_malloc
calloc_zero(r, n) ==
  IF r.ret = NULL THEN r ELSE [s |-> memset0(r.s, r.ret, n), ret |-> r.ret]

mm_calloc(s, nmemb, size) == calloc_zero(mm_malloc(s, nmemb * size), nmemb * size)

\* mm_free keeps the state, head_ptr and size from step to step
FreeStep(s, head_ptr, size) == [s |-> s, head_ptr |-> head_ptr, size |-> size]

\* lines 436-438 and 452-453 of mm_free: tags of the free block
free_tags(s, head_ptr, size) ==
  FreeStep(write_tags(s, head_ptr, PACK(size, FREE)), head_ptr, size)

\* lines 446 of mm_free: the header of the previous block is the new head
free_new_head(s, head_ptr, size) ==
  FreeStep(s, FTR2HDR(s, PREV_PTR(head_ptr)), size)

\* lines 442-446 of mm_free: size is already the sum of the two sizes
free_merge_prev(s, head_ptr, size) ==
  free_new_head(
    PUT_FTR(PUT(s, FTR2HDR(s, PREV_PTR(head_ptr)), PACK(size, FREE)),
            head_ptr, PACK(size, FREE)),
    head_ptr, size)

\* free_coalesce_prev that never merges
free_keep_prev(c) == c

\* lines 440-447 of mm_free: coalesce with the previous block
free_coalesce_prev(c) ==
  IF GET_STATUS(c.s, PREV_PTR(c.head_ptr)) = FREE
    THEN free_merge_prev(RD(c.s, PREV_PTR(c.head_ptr)), c.head_ptr,
                         c.size + GET_SIZE(c.s, PREV_PTR(c.head_ptr)))
    ELSE FreeStep(RD(c.s, PREV_PTR(c.head_ptr)), c.head_ptr, c.size)

\* lines 449-454 of mm_free: coalesce with the next block
free_coalesce_next(c) ==
  IF GET_STATUS(c.s, NEXT_BLK(c.s, c.head_ptr)) = FREE
    THEN free_tags(RD(c.s, NEXT_BLK(c.s, c.head_ptr)), c.head_ptr,
                   c.size + GET_SIZE(c.s, NEXT_BLK(c.s, c.head_ptr)))
    ELSE FreeStep(RD(c.s, NEXT_BLK(c.s, c.head_ptr)), c.head_ptr, c.size)

\* lines 462-465 of mm_free: s is the state after ds_sbrk(-size)
shrink_heap(s, size) ==
  PUT([s EXCEPT !.heap_end = s.heap_end - size], s.heap_end - size, PACK(0, ALLOC))

\* free_shrink that never gives anything back
free_shrink_never(c) == c.s

\* free_shrink that gives the whole data segment back
free_shrink_all(c) ==
  IF NEXT_BLK(c.s, c.head_ptr) = c.s.heap_end /\ c.size >= SHRINKTHLD
    THEN shrink_heap(ds_sbrk(c.s, c.s.ds_heap_start - c.s.ds_heap_brk).s, c.size)
    ELSE c.s

\* lines 456-466 of mm_free: give the last block back to the data segment
free_shrink(c) ==
  IF NEXT_BLK(c.s, c.head_ptr) = c.s.heap_end /\ c.size >= SHRINKTHLD
    THEN shrink_heap(ds_sbrk(c.s, -c.size).s, c.size)
    ELSE c.s

mm_free(s, ptr) ==
  IF ptr = NULL THEN [s |-> s, ret |-> NULL]
  ELSE IF GET_STATUS(s, PREV_PTR(ptr)) = FREE
    THEN [s |-> RD(s, PREV_PTR(ptr)), ret |-> NULL]
  ELSE [s |-> free_shrink(free_coalesce_next(free_coalesce_prev(
                free_tags(RD(s, PREV_PTR(ptr)), PREV_PTR(ptr),
                          GET_SIZE(s, PREV_PTR(ptr)))))),
        ret |-> NULL]

\* lines 370-371 of mm_realloc: the tail of the block becomes a free block
shrink_split(s, hdr, rest) ==
  PUT_FTR_HDR(PUT_FTR(s, hdr, PACK(rest, FREE)), hdr, PACK(rest, FREE))

\* lines 376-377 of mm_realloc: the free tail and the next block are merged
shrink_merge(s, hdr, new_free_size) ==
  PUT_FTR_HDR(PUT_FTR(s, NEXT_PTR(HDR2FTR(s, hdr)), PACK(new_free_size, FREE)),
              hdr, PACK(new_free_size, FREE))

\* shrink_coalesce that never merges the free tail with the next block
shrink_keep_next(s, hdr) == s

\* lines 373-378 of mm_realloc: coalesce if the next block is free
shrink_coalesce(s, hdr) ==
  IF GET_STATUS(s, NEXT_PTR(HDR2FTR(s, hdr))) = FREE
    THEN shrink_merge(RD(s, NEXT_PTR(HDR2FTR(s, hdr))), hdr,
                      GET_SIZE(s, HDR2FTR(s, hdr))
                        + GET_SIZE(s, NEXT_PTR(HDR2FTR(s, hdr))))
    ELSE RD(s, NEXT_PTR(HDR2FTR(s, hdr)))

\* lines 367-383 of mm_realloc: new_size < old_size
realloc_shrink(s, ptr, old_size, new_size) ==
  [s |-> write_tags(
           shrink_coalesce(shrink_split(s, PREV_PTR(ptr), old_size - new_size),
                           PREV_PTR(ptr)),
           PREV_PTR(ptr), PACK(new_size, ALLOC)),
   ret |-> ptr]

\* line 392 of mm_realloc
absorb_rest_hdr(s, hdr, rest) ==
  PUT_FTR_HDR(s, NEXT_BLK(s, hdr), PACK(rest, FREE))

\* lines 391-392 of mm_realloc: what is left of the following block
absorb_rest(s, hdr, rest) ==
  absorb_rest_hdr(PUT_FTR(s, NEXT_BLK(s, hdr), PACK(rest, FREE)), hdr, rest)

\* lines 390-396 of mm_realloc: take the space from the following block
realloc_absorb(s, ptr, old_size, next_size, new_size) ==
  [s |-> write_tags(absorb_rest(s, PREV_PTR(ptr), old_size + next_size - new_size),
                    PREV_PTR(ptr), PACK(new_size, ALLOC)),
   ret |-> ptr]

\* memcpy(new_ptr, ptr, copy_size), word by word
memcpy(s, new_ptr, ptr, copy_size) ==
  [s EXCEPT !.mem = [a \in DOMAIN s.mem \cup Words(new_ptr, copy_size) |->
                       IF a \in Words(new_ptr, copy_size)
                         THEN GET(s, ptr + (a - new_ptr)) ELSE s.mem[a]]]

\* the old block is freed whatever the allocation of the new one returned
free_old(m, ptr) == [s |-> mm_free(m.s, ptr).s, ret |-> m.ret]

\* realloc_move that frees the old block before it looks at the new one
realloc_move_free_first(s, ptr, size, old_size) == free_old(mm_malloc(s, size), ptr)

\* lines 401-412 of mm_realloc: m is the result of mm_malloc
realloc_copy(m, ptr, copy_size) ==
  IF m.ret = NULL THEN m
  ELSE IF copy_size < 0
    THEN [s |-> [m.s EXCEPT !.pc = "exit"], ret |-> NULL]  \* memcpy of (size_t)-8 bytes
  ELSE [s |-> mm_free(memcpy(m.s, m.ret, ptr, copy_size), ptr).s, ret |-> m.ret]

\* lines 399-412 of mm_realloc: allocate a new block, copy, free the old one
realloc_move(s, ptr, size, old_size) ==
  realloc_copy(mm_malloc(s, size), ptr, old_size - TYPE_SIZE)

\* the condition of line 389: the space is taken from the following block
Absorbs(s, ptr, new_size) ==
  LET old_size == GET_SIZE(s, PREV_PTR(ptr))
      nxt == NEXT_BLK_FROM_PAYLOAD(s, ptr)
  IN GET_STATUS(s, nxt) = FREE /\ old_size + GET_SIZE(s, nxt) >= new_size

\* lines 356-412 of mm_realloc: ptr is not NULL and size is not 0
realloc_resize(s, ptr, size) ==
  LET old_size == GET_SIZE(s, PREV_PTR(ptr))
      new_size == ROUND_UP(TYPE_SIZE + size + TYPE_SIZE)
      nxt == NEXT_BLK_FROM_PAYLOAD(s, ptr)
      next_size == GET_SIZE(s, nxt)
  IN IF new_size = old_size THEN [s |-> RD(s, PREV_PTR(ptr)), ret |-> ptr]
     ELSE IF new_size < old_size
       THEN realloc_shrink(RD(s, PREV_PTR(ptr)), ptr, old_size, new_size)
     ELSE IF Absorbs(s, ptr, new_size)
       THEN realloc_absorb(RD(RD(s, PREV_PTR(ptr)), nxt), ptr, old_size,
                           next_size, new_size)
     ELSE realloc_move(RD(RD(s, PREV_PTR(ptr)), nxt), ptr, size, old_size)

\* mm_realloc that returns for a size of 0 without releasing the block
mm_realloc_zero_keeps(s, ptr, size) ==
  IF ptr = NULL THEN mm_malloc(s, size)
  ELSE IF size = 0 THEN [s |-> s, ret |-> NULL]
  ELSE realloc_resize(s, ptr, size)

\* mm_realloc that treats a NULL pointer like a size of 0
mm_realloc_null_frees(s, ptr, size) ==
  IF ptr = NULL \/ size = 0 THEN [s |-> mm_free(s, ptr).s, ret |-> NULL]
  ELSE realloc_resize(s, ptr, size)

mm_realloc(s, ptr, size) ==
  IF ptr = NULL THEN mm_malloc(s, size)
  ELSE IF size = 0 THEN [s |-> mm_free(s, ptr).s, ret |-> NULL]
  ELSE realloc_resize(s, ptr, size)

----------------------------------------------------------------------------
(* The caller: any sequence of public calls on valid arguments, and writes *)
(* into the payload of live allocations.                                   *)

LivePtrs == {l.ptr : l \in live}

Call(op, ptr, size, ret) == [op |-> op, ptr |-> ptr, size |-> size, ret |-> ret]

\* the allocator's variables take the values of the state record r
\* the shell at its prompt: no child, no job, SIGCHLD not blocked
ShBoot ==
  [epc |-> "prompt", ncmd |-> 0, forked |-> 0, blocked |-> FALSE,
   pending |-> FALSE, child |-> [i \in 1..MaxCmd |-> "none"],
   job |-> FALSE, nproc_cur |-> 0, state |-> "none", polled |-> FALSE]

\* the burger server after init_mcdonalds: the order list is empty, the
\* kitchen threads are at the top of their loop, no customer has connected
McBoot ==
  [head |-> 0, tail |-> 0, count |-> 0,
   next |-> [o \in 1..MaxClients |-> 0],
   is_ready |-> [o \in 1..MaxClients |-> FALSE],
   waiting |-> [o \in 1..MaxClients |-> FALSE],
   cpc |-> [c \in 1..MaxClients |-> "connect"],
   kpc |-> [k \in 1..MaxKitchen |-> "loop"],
   order |-> [k \in 1..MaxKitchen |-> 0],
   taken |-> [o \in 1..MaxClients |-> 0]]

Becomes(r) ==
  /\ UNCHANGED <<sh, mc>>
  /\ mem' = r.mem
  /\ fill' = r.fill
  /\ ds_heap_start' = r.ds_heap_start
  /\ ds_heap_brk' = r.ds_heap_brk
  /\ heap_start' = r.heap_start
  /\ heap_end' = r.heap_end
  /\ get_free_block' = r.get_free_block
  /\ next_block' = r.next_block
  /\ mm_initialized' = r.mm_initialized
  /\ pc' = r.pc

Running == pc = "run" /\ mm_initialized = 1

Init ==
  /\ mem = <<>>
  /\ fill \in FillVals
  /\ ds_heap_start \in DsStarts
  /\ ds_heap_brk = ds_heap_start
  /\ heap_start = NULL
  /\ heap_end = NULL
  /\ get_free_block = "none"
  /\ next_block = NULL
  /\ mm_initialized = 0
  /\ pc = "run"
  /\ live = {}
  /\ released = {}
  /\ ncalls = 0
  /\ last = Call("none", NULL, 0, NULL)
  /\ sh = ShBoot
  /\ mc = McBoot

MmInit(ap) ==
  /\ pc = "run"
  /\ Becomes(mm_init(Cur, ap))
  /\ last' = Call("init", NULL, 0, NULL)
  /\ ncalls' = IF mm_initialized = 1 THEN ncalls + 1 ELSE ncalls
  /\ UNCHANGED <<live, released>>

Malloc(n) ==
  /\ Running
  /\ Cardinality(live) < MaxLive
  /\ \E r \in {mm_malloc(Cur, n)} :
       /\ Becomes(r.s)
       /\ last' = Call("malloc", NULL, n, r.ret)
       /\ live' = IF r.ret # NULL THEN live \cup {[ptr |-> r.ret, n |-> n]} ELSE live
       /\ released' = released \ {r.ret}
  /\ ncalls' = ncalls + 1

Calloc(nmemb, size) ==
  /\ Running
  /\ Cardinality(live) < MaxLive
  /\ \E r \in {mm_calloc(Cur, nmemb, size)} :
       /\ Becomes(r.s)
       /\ last' = Call("calloc", NULL, nmemb * size, r.ret)
       /\ live' = IF r.ret # NULL
                    THEN live \cup {[ptr |-> r.ret, n |-> nmemb * size]} ELSE live
       /\ released' = released \ {r.ret}
  /\ ncalls' = ncalls + 1

Realloc(ptr, n) ==
  /\ Running
  /\ ptr = NULL => Cardinality(live) < MaxLive
  /\ \E r \in {mm_realloc(Cur, ptr, n)} :
       LET gone == IF ptr # NULL /\ (n = 0 \/ (r.ret # NULL /\ r.ret # ptr))
                     THEN {ptr} ELSE {}
           kept == {l \in live : l.ptr # ptr \/ (r.ret = NULL /\ n # 0)}
       IN
         /\ Becomes(r.s)
         /\ last' = Call("realloc", ptr, n, r.ret)
         /\ live' = IF r.ret # NULL THEN kept \cup {[ptr |-> r.ret, n |-> n]} ELSE kept
         /\ released' = (released \cup gone) \ {r.ret}
  /\ ncalls' = ncalls + 1

Free(ptr) ==
  /\ Running
  /\ \E r \in {mm_free(Cur, ptr)} :
       /\ Becomes(r.s)
       /\ last' = Call("free", ptr, 0, NULL)
       /\ live' = {l \in live : l.ptr # ptr}
       /\ released' = IF ptr = NULL THEN released ELSE released \cup {ptr}
  /\ ncalls' = ncalls + 1

\* the caller stores the word v at byte offset off of its allocation l
Write(l, off, v) ==
  /\ Running
  /\ off + TYPE_SIZE <= l.n
  /\ mem' = ((l.ptr + off) :> v) @@ mem
  /\ ncalls' = ncalls + 1
  /\ last' = Call("write", l.ptr, off, v)
  /\ UNCHANGED <<fill, ds_heap_start, ds_heap_brk, heap_start, heap_end,
                 get_free_block, next_block, mm_initialized, pc, live, released,
                 sh, mc>>

Next ==
  \/ \E ap \in Policies : mm_initialized = 0 /\ MmInit(ap)
  \/ \E ap \in Policies : mm_initialized = 1 /\ ncalls < MaxCalls /\ MmInit(ap)
  \/ \E n \in ReqSizes : ncalls < MaxCalls /\ Malloc(n)
  \/ \E a \in CallocArgs : ncalls < MaxCalls /\ Calloc(a[1], a[2])
  \/ \E ptr \in LivePtrs \cup {NULL}, n \in ReqSizes :
       ncalls < MaxCalls /\ Realloc(ptr, n)
  \/ \E ptr \in LivePtrs \cup released \cup {NULL} : ncalls < MaxCalls /\ Free(ptr)
  \/ \E l \in live, off \in WriteOffsets, v \in PayloadVals :
       ncalls < MaxCalls /\ Write(l, off, v)

Spec == Init /\ [][Next]_vars

(* A caller that, after init, only allocates and releases.                 *)

NextMF ==
  \/ \E ap \in Policies : mm_initialized = 0 /\ MmInit(ap)
  \/ \E n \in ReqSizesMF : ncalls < MaxCallsMF /\ Malloc(n)
  \/ \E ptr \in LivePtrs : ncalls < MaxCallsMF /\ Free(ptr)

SpecMF == Init /\ [][NextMF]_vars

(* A caller on a data segment whose start is word aligned only.            *)

InitAny ==
  /\ mem = <<>>
  /\ fill \in FillVals
  /\ ds_heap_start \in DsStartsAny
  /\ ds_heap_brk = ds_heap_start
  /\ heap_start = NULL
  /\ heap_end = NULL
  /\ get_free_block = "none"
  /\ next_block = NULL
  /\ mm_initialized = 0
  /\ pc = "run"
  /\ live = {}
  /\ released = {}
  /\ ncalls = 0
  /\ last = Call("none", NULL, 0, NULL)
  /\ sh = ShBoot
  /\ mc = McBoot

NextAny ==
  \/ \E ap \in Policies : mm_initialized = 0 /\ MmInit(ap)
  \/ \E n \in ReqSizesMF : ncalls < MaxCallsAny /\ Malloc(n)
  \/ \E ptr \in LivePtrs : ncalls < MaxCallsAny /\ Free(ptr)

SpecAny == InitAny /\ [][NextAny]_vars

(* A caller that asks for sizes at the top of the range of size_t.         *)

NextBig ==
  \/ \E ap \in Policies : mm_initialized = 0 /\ MmInit(ap)
  \/ \E n \in ReqSizesBig : ncalls < MaxCallsBig /\ Malloc(n)
  \/ \E ptr \in LivePtrs : ncalls < MaxCallsBig /\ Free(ptr)

SpecBig == Init /\ [][NextBig]_vars

----------------------------------------------------------------------------
(* Reading the heap: the chain of blocks walked from heap_start by header  *)
(* sizes, as mm_check walks it.                                            *)

\* the header addresses met from p on, up to heap_end or a header of size 0
RECURSIVE ChainFrom(_, _)
ChainFrom(s, p) ==
  IF p >= s.heap_end \/ GET_SIZE(s, p) <= 0 THEN <<>>
  ELSE <<p>> \o ChainFrom(s, p + GET_SIZE(s, p))

Chain(s) == ChainFrom(s, s.heap_start)

\* the set of the header addresses of the chain from p on
RECURSIVE BlocksFrom(_, _)
BlocksFrom(s, p) ==
  IF p >= s.heap_end \/ GET_SIZE(s, p) <= 0 THEN {}
  ELSE {p} \cup BlocksFrom(s, p + GET_SIZE(s, p))

Blocks(s) == BlocksFrom(s, s.heap_start)

\* where the walk stops: heap_end exactly when the chain is whole
RECURSIVE ChainEnd(_, _)
ChainEnd(s, p) ==
  IF p >= s.heap_end \/ GET_SIZE(s, p) <= 0 THEN p
  ELSE ChainEnd(s, p + GET_SIZE(s, p))

\* lines 606-640 of mm_check: the walk; it ends the process at a block
\* whose footer differs from its header and stops at a block of size 0
RECURSIVE check_walk(_, _)
check_walk(s, p) ==
  IF ~(p < s.heap_end) THEN [p |-> p, panic |-> FALSE]
  ELSE IF \/ SIZE(GET(s, p + GET_SIZE(s, p) - TYPE_SIZE)) # GET_SIZE(s, p)
          \/ STATUS(GET(s, p + GET_SIZE(s, p) - TYPE_SIZE)) # GET_STATUS(s, p)
    THEN [p |-> p, panic |-> TRUE]
  ELSE IF GET_SIZE(s, p) = 0 THEN [p |-> p, panic |-> FALSE]
  ELSE check_walk(s, p + GET_SIZE(s, p))

\* mm_check that walks by the header sizes and never looks at a footer
mm_check_sizes_only(s) ==
  IF ChainEnd(s, s.heap_start) = s.heap_end THEN "coherent" ELSE "silent"

\* mm_check: "coherent" when it prints "Block structure coherent.", "panic"
\* when it ends the process, "silent" when it returns without that line
mm_check(s) ==
  IF check_walk(s, s.heap_start).panic THEN "panic"
  ELSE IF check_walk(s, s.heap_start).p = s.heap_end THEN "coherent"
  ELSE "silent"

\* the payload bytes [ptr, ptr + n) of two allocations have a byte in common
Overlap(l1, l2) == l1.ptr < l2.ptr + l2.n /\ l2.ptr < l1.ptr + l1.n

----------------------------------------------------------------------------
(* C1: under each policy, after any sequence of allocate and release       *)
(* calls, every live pointer returned by allocate(n) has before it the     *)
(* header of an allocated block of payload capacity (size - 16) >= n, and  *)
(* the payloads of two distinct live allocations are disjoint.             *)

C1_LiveBlocksDisjoint ==
  pc = "run" =>
    /\ \A l \in live :
         /\ GET_STATUS(Cur, PREV_PTR(l.ptr)) = ALLOC
         /\ GET_SIZE(Cur, PREV_PTR(l.ptr)) - 2 * TYPE_SIZE >= l.n
    /\ \A l1, l2 \in live : l1 # l2 => ~Overlap(l1, l2)

\* the heap is initialized and no call is hanging or has ended the process
Idle == pc = "run" /\ mm_initialized = 1

(* C2: after init and after every completed call, stepping from heap_start *)
(* by the header sizes reaches heap_end exactly, every block visited has   *)
(* its header word equal to its footer word, and the sizes add up to       *)
(* heap_end - heap_start.                                                  *)

C2_ChainCoherent ==
  Idle =>
    /\ ChainEnd(Cur, heap_start) = heap_end
    /\ \A b \in Blocks(Cur) : GET(Cur, b) = GET(Cur, HDR2FTR(Cur, b))

(* C3: after every completed call no two physically adjacent blocks of the *)
(* arena are both free.                                                    *)

C3_NoAdjacentFree ==
  Idle =>
    \A b \in Blocks(Cur) :
      (GET_STATUS(Cur, b) = FREE /\ NEXT_BLK(Cur, b) < heap_end)
        => GET_STATUS(Cur, NEXT_BLK(Cur, b)) # FREE

(* C4: between public calls the word before heap_start and the word at     *)
(* heap_end hold the sentinel value (size 0, allocated), and no allocation *)
(* handed out starts at a sentinel.                                        *)

C4_SentinelsKept ==
  Idle =>
    /\ GET(Cur, PREV_PTR(heap_start)) = PACK(0, ALLOC)
    /\ GET(Cur, heap_end) = PACK(0, ALLOC)
    /\ \A l \in live : PREV_PTR(l.ptr) \notin {PREV_PTR(heap_start), heap_end}

(* C5: heap_start <= heap_end, both are multiples of 32, and every block   *)
(* of the arena has a size that is a positive multiple of 32 and status    *)
(* bits 0 or 1.                                                            *)

C5_AlignedBlocks ==
  Idle =>
    /\ heap_start <= heap_end
    /\ heap_start % BS = 0
    /\ heap_end % BS = 0
    /\ ChainEnd(Cur, heap_start) >= heap_end
    /\ \A b \in Blocks(Cur) :
         /\ GET_SIZE(Cur, b) > 0
         /\ GET_SIZE(Cur, b) % BS = 0
         /\ GET_STATUS(Cur, b) \in {FREE, ALLOC}

(* C6: if the policy finds no block and the data segment cannot be         *)
(* extended, allocate returns NULL and every boundary tag, both sentinels, *)
(* heap_start, heap_end and the break are as they were before the call.    *)

C6_FailedAllocateKeepsHeap ==
  Idle =>
    \A n \in ReqSizes \ {0} :
      LET blocksize == ROUND_UP(TYPE_SIZE + n + TYPE_SIZE)
          f == find_free_block(Cur, blocksize)
          r == mm_malloc(Cur, n)
      IN (/\ f.s.pc = "run"
          /\ f.ret = NULL
          /\ ds_sbrk(f.s, MAX(CHUNKSIZE, blocksize)).ret = NULL)
         => /\ r.ret = NULL
            /\ r.s.mem = mem
            /\ r.s.heap_start = heap_start
            /\ r.s.heap_end = heap_end
            /\ r.s.ds_heap_brk = ds_heap_brk

\* an allocate of a size other than 0 has just failed on the data segment
C6_Witness ==
  /\ Idle
  /\ last.op = "malloc" /\ last.size # 0 /\ last.ret = NULL
  /\ ds_sbrk(Cur, MAX(CHUNKSIZE, ROUND_UP(TYPE_SIZE + last.size + TYPE_SIZE))).ret = NULL

(* C7: when resize(p, n) has to move the block and the allocation of the   *)
(* new block fails, resize returns NULL and the block at p keeps its tags  *)
(* (allocated, same size) and its payload: no word of the heap changes.    *)

C7_FailedResizeKeepsBlock ==
  Idle =>
    \A l \in live, n \in ReqSizes \ {0} :
      LET hdr == PREV_PTR(l.ptr)
          new_size == ROUND_UP(TYPE_SIZE + n + TYPE_SIZE)
          m == mm_malloc(Cur, n)
          r == mm_realloc(Cur, l.ptr, n)
      IN (/\ new_size > GET_SIZE(Cur, hdr)
          /\ ~Absorbs(Cur, l.ptr, new_size)
          /\ m.s.pc = "run"
          /\ m.ret = NULL)
         => /\ r.ret = NULL
            /\ GET(r.s, hdr) = GET(Cur, hdr)
            /\ GET(r.s, HDR2FTR(r.s, hdr)) = GET(Cur, HDR2FTR(Cur, hdr))
            /\ r.s.mem = mem

\* a resize of a live, allocated block to a larger size has just failed
C7_Witness ==
  /\ Idle
  /\ last.op = "realloc" /\ last.ptr # NULL /\ last.size # 0 /\ last.ret = NULL
  /\ last.ptr \in LivePtrs
  /\ GET_STATUS(Cur, PREV_PTR(last.ptr)) = ALLOC
  /\ ROUND_UP(TYPE_SIZE + last.size + TYPE_SIZE) > GET_SIZE(Cur, PREV_PTR(last.ptr))

(* C8: release(p) of a pointer whose block has already been released (and  *)
(* that was not handed out again) changes nothing: no tag, no sentinel, no *)
(* heap bound, not the break; also when the first release coalesced the    *)
(* block or shrank the arena.                                              *)

C8_DoubleFreeNoOp ==
  Idle => \A p \in released : mm_free(Cur, p).s = Cur

(* C9: allocate(0) returns NULL, release(NULL) returns, and neither        *)
(* changes any allocator state (tags, sentinels, heap bounds, break,       *)
(* next-fit cursor).                                                       *)

C9_ZeroAndNullAreNoOps ==
  Idle =>
    /\ mm_malloc(Cur, 0) = [s |-> Cur, ret |-> NULL]
    /\ mm_free(Cur, NULL).s = Cur

\* allocate(0) has just returned NULL on a heap with a live allocation and,
\* under next-fit, a cursor that has been set
C9_Witness ==
  /\ Idle
  /\ last = Call("malloc", NULL, 0, NULL)
  /\ live # {}
  /\ get_free_block = "nf" /\ next_block # NULL

(* C10: from the same state, resize(NULL, n) and allocate(n) return the    *)
(* same pointer (or both NULL) and leave the same state, for every n.      *)

C10_ResizeNullIsAllocate ==
  Idle => \A n \in ReqSizes : mm_realloc(Cur, NULL, n) = mm_malloc(Cur, n)

\* resize(NULL, n) has just handed out a block
C10_Witness ==
  /\ Idle
  /\ last.op = "realloc" /\ last.ptr = NULL /\ last.size # 0 /\ last.ret # NULL
  /\ [ptr |-> last.ret, n |-> last.size] \in live

(* C11: from the same state and for a live pointer p, resize(p, 0) returns *)
(* NULL and leaves exactly the state release(p) leaves.                    *)

C11_ResizeZeroIsRelease ==
  Idle =>
    \A l \in live :
      mm_realloc(Cur, l.ptr, 0) = [s |-> mm_free(Cur, l.ptr).s, ret |-> NULL]

\* resize(p, 0) of a live pointer has just returned, and the block at p is
\* no longer an allocated block of the arena
C11_Witness ==
  /\ Idle
  /\ last.op = "realloc" /\ last.ptr # NULL /\ last.size = 0 /\ last.ret = NULL
  /\ last.ptr \in released
  /\ (PREV_PTR(last.ptr) >= heap_end \/ GET_STATUS(Cur, PREV_PTR(last.ptr)) = FREE)

\* resize(l.ptr, n) has to move the block and the new block is allocated
Relocates(l, n) ==
  /\ n # 0
  /\ ROUND_UP(TYPE_SIZE + n + TYPE_SIZE) > GET_SIZE(Cur, PREV_PTR(l.ptr))
  /\ ~Absorbs(Cur, l.ptr, ROUND_UP(TYPE_SIZE + n + TYPE_SIZE))
  /\ mm_malloc(Cur, n).ret # NULL
  /\ mm_realloc(Cur, l.ptr, n).s.pc = "run"

(* C12: when resize(p, n) relocates, it returns a pointer to a different   *)
(* block whose first (old size - 16) bytes equal the old payload, it       *)
(* copies the old payload and no more (the rest of the new payload is as   *)
(* the allocation left it), and afterwards the old block is free.          *)

C12_RelocationCopiesPayload ==
  Idle =>
    \A l \in live, n \in ReqSizes :
      (GET_STATUS(Cur, PREV_PTR(l.ptr)) = ALLOC /\ Relocates(l, n)) =>
        \A m \in {mm_malloc(Cur, n)}, r \in {mm_realloc(Cur, l.ptr, n)} :
          LET old_payload == GET_SIZE(Cur, PREV_PTR(l.ptr)) - 2 * TYPE_SIZE
              new_payload == GET_SIZE(m.s, PREV_PTR(m.ret)) - 2 * TYPE_SIZE
          IN /\ r.ret = m.ret /\ r.ret # l.ptr
             /\ \A a \in Words(l.ptr, old_payload) :
                  GET(r.s, r.ret + (a - l.ptr)) = GET(Cur, a)
             /\ \A a \in Words(r.ret + old_payload, new_payload - old_payload) :
                  GET(r.s, a) = GET(m.s, a)
             /\ (PREV_PTR(l.ptr) >= r.s.heap_end
                   \/ GET_STATUS(r.s, PREV_PTR(l.ptr)) = FREE)

(* C13: for every request size of the size type (arithmetic modulo         *)
(* 2^SizeBits), allocate(size) returns NULL or a pointer to an allocated   *)
(* block whose payload capacity (block size - 16) is at least size.        *)

C13_CapacityCoversRequest ==
  (pc = "run" /\ last.op = "malloc" /\ last.ret # NULL) =>
    /\ GET_STATUS(Cur, PREV_PTR(last.ret)) = ALLOC
    /\ GET_SIZE(Cur, PREV_PTR(last.ret)) - 2 * TYPE_SIZE >= last.size

(* C14: after a successful init the data segment has grown by one          *)
(* CHUNKSIZE, heap_start is the first 32-byte boundary above its start and *)
(* heap_end the last 32-byte boundary below its break, the arena is one    *)
(* free block over [heap_start, heap_end) with equal header and footer,    *)
(* and the words before heap_start and at heap_end are sentinels.          *)

C14_InitLayout ==
  (Idle /\ last.op = "init") =>
    /\ ds_heap_brk = ds_heap_start + CHUNKSIZE
    /\ heap_start % BS = 0
    /\ heap_start > ds_heap_start /\ heap_start - BS <= ds_heap_start
    /\ heap_end % BS = 0
    /\ heap_end < ds_heap_brk /\ heap_end + BS >= ds_heap_brk
    /\ PREV_PTR(heap_start) >= ds_heap_start
    /\ heap_end + TYPE_SIZE <= ds_heap_brk
    /\ GET(Cur, PREV_PTR(heap_start)) = PACK(0, ALLOC)
    /\ GET(Cur, heap_end) = PACK(0, ALLOC)
    /\ GET(Cur, heap_start) = PACK(heap_end - heap_start, FREE)
    /\ GET(Cur, PREV_PTR(heap_end)) = PACK(heap_end - heap_start, FREE)
    /\ Chain(Cur) = <<heap_start>>
    /\ DOMAIN mem = {PREV_PTR(heap_start), heap_start, PREV_PTR(heap_end), heap_end}

\* init has just returned on a data segment that starts off a 32-byte boundary
C14_Witness ==
  /\ Idle /\ last.op = "init"
  /\ ds_heap_start % BS # 0

(* C15: in every state reachable after a successful init the break of the  *)
(* data segment is above its start, so a second init ends the process and  *)
(* writes no word.                                                         *)

C15_SecondInitIsFatal ==
  Idle =>
    /\ ds_heap_brk > ds_heap_start
    /\ \A ap \in Policies :
         mm_init(Cur, ap).pc = "exit" /\ mm_init(Cur, ap).mem = mem

\* a second init has just ended the process, after the arena had been
\* shrunk to empty
C15_Witness ==
  /\ pc = "exit" /\ last.op = "init" /\ mm_initialized = 1
  /\ heap_end = heap_start

(* C16: from a state with no live allocation, for every n > 0 for which    *)
(* allocate(n) succeeds, release(allocate(n)) leaves an arena that passes  *)
(* the consistency check, has no allocated block and is no larger than     *)
(* before the allocate.                                                    *)

C16_AllocateReleaseRoundTrip ==
  (Idle /\ live = {}) =>
    \A n \in ReqSizesMF :
      \A m \in {mm_malloc(Cur, n)} :
        (m.ret # NULL /\ m.s.pc = "run") =>
          \A f \in {mm_free(m.s, m.ret).s} :
            /\ mm_check(f) = "coherent"
            /\ \A b \in Blocks(f) : GET_STATUS(f, b) = FREE
            /\ f.heap_end - f.heap_start <= heap_end - heap_start

(* C17: every public call returns or ends the process: no scan of a policy *)
(* goes on for ever.                                                       *)

C17_CallsTerminate == pc # "hung"

(* C18: a successful zeroAllocate(count, size) returns the pointer         *)
(* allocate(count * size) returns, every word of its count * size payload  *)
(* bytes reads as 0 and everything else is as allocate leaves it; when the *)
(* allocation fails nothing is written.                                    *)

C18_ZeroAllocateClears ==
  Idle =>
    \A a \in CallocArgs :
      \A m \in {mm_malloc(Cur, a[1] * a[2])}, r \in {mm_calloc(Cur, a[1], a[2])} :
        /\ r.ret = m.ret
        /\ r.ret # NULL =>
             /\ \A w \in Words(r.ret, a[1] * a[2]) : GET(r.s, w) = 0
             /\ \A w \in (DOMAIN m.s.mem \cup DOMAIN r.s.mem)
                          \ Words(r.ret, a[1] * a[2]) : GET(r.s, w) = GET(m.s, w)
             /\ [r.s EXCEPT !.mem = <<>>] = [m.s EXCEPT !.mem = <<>>]
        /\ r.ret = NULL => r.s.mem = mem

\* zeroAllocate(5, 8) has just returned a block in memory whose
\* never-written words read as 64
C18_Witness ==
  /\ Idle
  /\ last.op = "calloc" /\ last.size = 40 /\ last.ret # NULL
  /\ fill = 64
  /\ \A w \in Words(last.ret, 40) : GET(Cur, w) = 0

(* C19: heap_end and the break of the data segment decrease only in a step *)
(* that releases a block: release, or a resize that releases its block     *)
(* (size 0, or a move). Allocate, zeroAllocate and a resize in place never *)
(* decrease them.                                                          *)

C19_ArenaShrinksOnlyInRelease ==
  [][(heap_end' < heap_end \/ ds_heap_brk' < ds_heap_brk) =>
       \/ last'.op = "free"
       \/ last'.op = "realloc" /\ last'.ptr # NULL /\ last'.ret # last'.ptr]_vars

\* an allocate has just grown the arena beyond its initial size
C19_Witness ==
  /\ Idle
  /\ last.op = "malloc" /\ last.ret # NULL
  /\ ds_heap_brk > ds_heap_start + CHUNKSIZE
  /\ heap_end > ds_heap_start + CHUNKSIZE

\* blk is a free block of the arena with equal header and footer that can
\* hold a block of b bytes
Candidate(blk, b) ==
  /\ GET_STATUS(Cur, blk) = FREE
  /\ GET(Cur, blk) = GET(Cur, HDR2FTR(Cur, blk))
  /\ GET_SIZE(Cur, blk) >= b
  /\ blk + GET_SIZE(Cur, blk) <= heap_end

(* C20: given a candidate free block of size c and a required block size   *)
(* b = ROUND_UP(n + 16): if c >= b + 32 the result is an allocated block   *)
(* of b bytes at the candidate's address followed by a free block of c - b *)
(* bytes, both with equal header and footer; otherwise the whole candidate *)
(* is allocated. The pointer returned is the candidate's address plus 8,   *)
(* and no other word changes.                                              *)

C20_SplitRule ==
  Idle =>
    \A blk \in Blocks(Cur), n \in ReqSizes \ {0} :
      Candidate(blk, ROUND_UP(TYPE_SIZE + n + TYPE_SIZE)) =>
        \A r \in {place_block(Cur, blk, ROUND_UP(TYPE_SIZE + n + TYPE_SIZE))} :
          LET c == GET_SIZE(Cur, blk)
              b == ROUND_UP(TYPE_SIZE + n + TYPE_SIZE)
              tags == IF c >= b + BS
                        THEN {blk, blk + b - TYPE_SIZE, blk + b, blk + c - TYPE_SIZE}
                        ELSE {blk, blk + c - TYPE_SIZE}
          IN /\ r.ret = blk + TYPE_SIZE
             /\ c >= b + BS =>
                  /\ GET(r.s, blk) = PACK(b, ALLOC)
                  /\ GET(r.s, blk + b - TYPE_SIZE) = PACK(b, ALLOC)
                  /\ GET(r.s, blk + b) = PACK(c - b, FREE)
                  /\ GET(r.s, blk + c - TYPE_SIZE) = PACK(c - b, FREE)
             /\ c < b + BS =>
                  /\ GET(r.s, blk) = PACK(c, ALLOC)
                  /\ GET(r.s, blk + c - TYPE_SIZE) = PACK(c, ALLOC)
             /\ \A w \in (DOMAIN mem \cup DOMAIN r.s.mem) \ tags : GET(r.s, w) = GET(Cur, w)
             /\ [r.s EXCEPT !.mem = <<>>] = [Cur EXCEPT !.mem = <<>>]

\* an allocate has just split a free block: its block has exactly the
\* required size and a free block with equal header and footer follows
C20_Witness ==
  /\ Idle
  /\ last.op = "malloc" /\ last.ret # NULL
  /\ GET(Cur, PREV_PTR(last.ret)) = PACK(ROUND_UP(TYPE_SIZE + last.size + TYPE_SIZE), ALLOC)
  /\ NEXT_BLK(Cur, PREV_PTR(last.ret)) < heap_end
  /\ GET_STATUS(Cur, NEXT_BLK(Cur, PREV_PTR(last.ret))) = FREE
  /\ GET(Cur, NEXT_BLK(Cur, PREV_PTR(last.ret)))
       = GET(Cur, HDR2FTR(Cur, NEXT_BLK(Cur, PREV_PTR(last.ret))))

\* the free block that ends at heap_end: its size, or 0 when the last block
\* of the chain is allocated or the arena is empty
TrailingFree(s) ==
  IF Chain(s) # <<>>
     /\ GET_STATUS(s, Chain(s)[Len(Chain(s))]) = FREE
     /\ NEXT_BLK(s, Chain(s)[Len(Chain(s))]) = s.heap_end
    THEN GET_SIZE(s, Chain(s)[Len(Chain(s))])
    ELSE 0

\* the arena passes the consistency check: the walk from heap_start ends
\* at heap_end and every block on the way has its footer equal to its header
Coherent(s) == mm_check(s) = "coherent"

(* C21: in an arena that passes the consistency check, when the policy     *)
(* finds no block and the data segment can grow,                           *)
(* allocate asks for exactly MAX(CHUNKSIZE, block size) bytes; the         *)
(* candidate block starts at the old trailing free block (or at the old    *)
(* heap_end), its size is the old trailing free size (or 0) plus the       *)
(* growth of heap_end, it is at least the block size, its header and       *)
(* footer are equal and the end sentinel is written at the new heap_end.   *)

LeftFree(s, bs, hdr) ==
  IF \E b \in bs : NEXT_BLK(s, b) = hdr /\ GET_STATUS(s, b) = FREE
    THEN GET_SIZE(s, CHOOSE b \in bs : NEXT_BLK(s, b) = hdr)
    ELSE 0

\* the size of the block that follows the block at hdr, if it is a free
\* block of the chain bs, else 0
RightFree(s, bs, hdr) ==
  IF NEXT_BLK(s, hdr) \in bs /\ GET_STATUS(s, NEXT_BLK(s, hdr)) = FREE
    THEN GET_SIZE(s, NEXT_BLK(s, hdr))
    ELSE 0

\* r is the arena after the block at hdr of the arena s (chain bs) was
\* released without a shrink: one free block of `size` bytes at `start`
\* stands for the blocks of s in that range, and the other blocks are kept
Coalesced(s, bs, r, rbs, start, size) ==
  /\ GET(r, start) = PACK(size, FREE)
  /\ GET(r, start + size - TYPE_SIZE) = PACK(size, FREE)
  /\ rbs = {b \in bs : b < start \/ b >= start + size} \cup {start}
  /\ \A b \in rbs \ {start} :
       GET(r, b) = GET(s, b) /\ GET(r, HDR2FTR(r, b)) = GET(r, b)

(* C22: in an arena that passes the consistency check, release(p) of an    *)
(* allocated block B, when it does not shrink the arena, leaves exactly    *)
(* one free block over B, its left neighbour if that was free and its      *)
(* right neighbour if that was free; header and footer hold the sum of the *)
(* merged sizes (the size of B when both neighbours were allocated), and   *)
(* no other block of the chain changes.                                    *)

C22_ReleaseCoalesces ==
  (Idle /\ Coherent(Cur)) =>
    \A bs \in {Blocks(Cur)} :
      \A l \in live :
        (PREV_PTR(l.ptr) \in bs /\ GET_STATUS(Cur, PREV_PTR(l.ptr)) = ALLOC) =>
          \A r \in {mm_free(Cur, l.ptr).s} :
            r.heap_end = heap_end =>
              \A lf \in {LeftFree(Cur, bs, PREV_PTR(l.ptr))},
                 rf \in {RightFree(Cur, bs, PREV_PTR(l.ptr))} :
                Coalesced(Cur, bs, r, Blocks(r), PREV_PTR(l.ptr) - lf,
                          lf + GET_SIZE(Cur, PREV_PTR(l.ptr)) + rf)

\* a release has just merged its block with a free block on its left and a
\* free block on its right: the header it cleared lies inside a free block
\* that starts below it and ends above the block it cleared
C22_Witness ==
  /\ Idle /\ Coherent(Cur)
  /\ last.op = "free" /\ last.ptr # NULL
  /\ \E b \in Blocks(Cur) :
       /\ GET_STATUS(Cur, b) = FREE
       /\ b < PREV_PTR(last.ptr)
       /\ PREV_PTR(last.ptr) + GET_SIZE(Cur, PREV_PTR(last.ptr)) < NEXT_BLK(Cur, b)
       /\ GET_STATUS(Cur, PREV_PTR(last.ptr)) = FREE

\* r is the arena s after a release whose coalesced free block has `size`
\* bytes at `start`: shrunk by the block when it is the last one and large
\* enough, else with heap_end and the break as they were
ShrunkBy(s, r, start, size) ==
  IF start + size = s.heap_end /\ size >= SHRINKTHLD
    THEN /\ r.ds_heap_brk = s.ds_heap_brk - size
         /\ r.heap_end = start
         /\ GET(r, start) = PACK(0, ALLOC)
         /\ GET_STATUS(r, PREV_PTR(start)) = ALLOC
    ELSE /\ r.heap_end = s.heap_end
         /\ r.ds_heap_brk = s.ds_heap_brk

(* C23: in an arena that passes the consistency check, at the end of       *)
(* release, if the coalesced free block ends at heap_end and its size is   *)
(* at least SHRINKTHLD, the break goes down by exactly that size, heap_end *)
(* becomes the block's start, the end sentinel is written there and the    *)
(* block before the new heap_end is allocated; otherwise heap_end and the  *)
(* break are unchanged.                                                    *)

ShrunkInPlace(s, bs, r, hdr, new_size, tail) ==
  /\ GET(r, hdr) = PACK(new_size, ALLOC)
  /\ GET(r, hdr + new_size - TYPE_SIZE) = PACK(new_size, ALLOC)
  /\ GET(r, hdr + new_size) = PACK(tail, FREE)
  /\ GET(r, hdr + new_size + tail - TYPE_SIZE) = PACK(tail, FREE)
  /\ Blocks(r) = {b \in bs : b <= hdr \/ b >= hdr + new_size + tail}
                   \cup {hdr + new_size}
  /\ \A b \in bs : (b < hdr \/ b >= hdr + new_size + tail) =>
       GET(r, b) = GET(s, b) /\ GET(r, HDR2FTR(r, b)) = GET(s, b)
  /\ [r EXCEPT !.mem = <<>>] = [s EXCEPT !.mem = <<>>]

(* C24: in an arena that passes the consistency check, resize(p, n) to a   *)
(* smaller block size returns p, leaves the block at p allocated with      *)
(* exactly the new size, and turns the cut-off tail into a free block,     *)
(* merged with the following block when that block is free: one free block *)
(* with equal header and footer.                                           *)

C24_ResizeShrinksInPlace ==
  (Idle /\ Coherent(Cur)) =>
    \A bs \in {Blocks(Cur)} :
      \A l \in live, n \in ReqSizes \ {0} :
        (/\ PREV_PTR(l.ptr) \in bs
         /\ GET_STATUS(Cur, PREV_PTR(l.ptr)) = ALLOC
         /\ ROUND_UP(TYPE_SIZE + n + TYPE_SIZE) < GET_SIZE(Cur, PREV_PTR(l.ptr)))
        => \A r \in {mm_realloc(Cur, l.ptr, n)} :
             /\ r.ret = l.ptr
             /\ ShrunkInPlace(Cur, bs, r.s, PREV_PTR(l.ptr),
                              ROUND_UP(TYPE_SIZE + n + TYPE_SIZE),
                              GET_SIZE(Cur, PREV_PTR(l.ptr))
                                - ROUND_UP(TYPE_SIZE + n + TYPE_SIZE)
                                + RightFree(Cur, bs, PREV_PTR(l.ptr)))

\* a resize has just cut its block in place and merged the tail with the
\* free block that followed: the free block after the resized block holds,
\* strictly inside, the footer that was written for the tail alone
C24_Witness ==
  /\ Idle /\ Coherent(Cur)
  /\ last.op = "realloc" /\ last.ptr # NULL /\ last.ret = last.ptr
  /\ GET(Cur, PREV_PTR(last.ptr))
       = PACK(ROUND_UP(TYPE_SIZE + last.size + TYPE_SIZE), ALLOC)
  /\ \E b \in {NEXT_BLK(Cur, PREV_PTR(last.ptr))} :
       /\ b \in Blocks(Cur)
       /\ GET_STATUS(Cur, b) = FREE
       /\ \E w \in DOMAIN mem :
            /\ b < w /\ w + TYPE_SIZE < NEXT_BLK(Cur, b)
            /\ GET(Cur, w) = PACK(w + TYPE_SIZE - b, FREE)

\* r is the arena s after the block at hdr grew in place to new_size out
\* of the free block that followed it: `rest` bytes of that block are left
\* as a free block, or none, and the tag after it is as it was
GrownInPlace(s, r, hdr, new_size, rest) ==
  /\ GET(r, hdr) = PACK(new_size, ALLOC)
  /\ GET(r, hdr + new_size - TYPE_SIZE) = PACK(new_size, ALLOC)
  /\ rest > 0 =>
       /\ GET(r, hdr + new_size) = PACK(rest, FREE)
       /\ GET(r, hdr + new_size + rest - TYPE_SIZE) = PACK(rest, FREE)
  /\ GET(r, hdr + new_size + rest) = GET(s, hdr + new_size + rest)
  /\ GET(r, r.heap_end) = GET(s, s.heap_end)
  /\ [r EXCEPT !.mem = <<>>] = [s EXCEPT !.mem = <<>>]

(* C25: in an arena that passes the consistency check, resize(p, n) to a   *)
(* larger block size, when the block that follows p's block is free and    *)
(* the two sizes together are at least the new size, returns p, makes the  *)
(* block at p exactly the new size and leaves the rest of the following    *)
(* block as a smaller free block (none when it fits exactly); the header   *)
(* of the block after it and the end sentinel do not change.               *)

C25_ResizeGrowsInPlace ==
  (Idle /\ Coherent(Cur)) =>
    \A bs \in {Blocks(Cur)} :
      \A l \in live, n \in ReqSizes \ {0} :
        (/\ PREV_PTR(l.ptr) \in bs
         /\ GET_STATUS(Cur, PREV_PTR(l.ptr)) = ALLOC
         /\ ROUND_UP(TYPE_SIZE + n + TYPE_SIZE) > GET_SIZE(Cur, PREV_PTR(l.ptr))
         /\ RightFree(Cur, bs, PREV_PTR(l.ptr)) > 0
         /\ GET_SIZE(Cur, PREV_PTR(l.ptr)) + RightFree(Cur, bs, PREV_PTR(l.ptr))
              >= ROUND_UP(TYPE_SIZE + n + TYPE_SIZE))
        => \A r \in {mm_realloc(Cur, l.ptr, n)} :
             /\ r.ret = l.ptr
             /\ GrownInPlace(Cur, r.s, PREV_PTR(l.ptr),
                             ROUND_UP(TYPE_SIZE + n + TYPE_SIZE),
                             GET_SIZE(Cur, PREV_PTR(l.ptr))
                               + RightFree(Cur, bs, PREV_PTR(l.ptr))
                               - ROUND_UP(TYPE_SIZE + n + TYPE_SIZE))

\* the block sizes the policies are asked for
BlockSizes == {ROUND_UP(TYPE_SIZE + n + TYPE_SIZE) : n \in ReqSizesMF \cup (ReqSizes \ {0})}

\* the free blocks of the chain bs that have at least `size` bytes
FreeFits(s, bs, size) ==
  {b \in bs : GET_STATUS(s, b) = FREE /\ GET_SIZE(s, b) >= size}

(* C26: in an arena that passes the consistency check, first-fit returns   *)
(* the lowest-address free block of the chain from heap_start to heap_end  *)
(* whose size is at least the required size, and NULL exactly when the     *)
(* chain has no such block.                                                *)

C26_FirstFitLowest ==
  (Idle /\ Coherent(Cur)) =>
    \A bs \in {Blocks(Cur)} :
      \A size \in BlockSizes :
        \A fit \in {FreeFits(Cur, bs, size)}, f \in {ff_get_free_block(Cur, size)} :
          /\ f.s.pc = "run"
          /\ (f.ret = NULL) <=> (fit = {})
          /\ f.ret # NULL => (f.ret \in fit /\ \A b \in fit : f.ret <= b)

\* under first-fit an allocate has just been given a block above a free
\* block that was too small for it
C26_Witness ==
  /\ Idle /\ Coherent(Cur)
  /\ get_free_block = "ff"
  /\ last.op = "malloc" /\ last.ret # NULL
  /\ \E b \in Blocks(Cur) :
       /\ b < PREV_PTR(last.ret)
       /\ GET_STATUS(Cur, b) = FREE
       /\ GET_SIZE(Cur, b) < ROUND_UP(TYPE_SIZE + last.size + TYPE_SIZE)

\* the cursor after the reset step of nf_get_free_block
CursorAtScan(s) ==
  IF s.next_block = NULL \/ s.next_block >= s.heap_end THEN s.heap_start
  ELSE s.next_block

\* the first block of `fit` met from the address c on, going round through
\* heap_start after the last block
FirstFrom(fit, c) ==
  IF \E b \in fit : b >= c
    THEN CHOOSE b \in fit : b >= c /\ \A b2 \in fit : b2 >= c => b <= b2
    ELSE CHOOSE b \in fit : \A b2 \in fit : b <= b2

(* C27: in every state reachable by public calls (with an arena that       *)
(* passes the consistency check), next-fit returns the first free block of *)
(* at least the required size met when walking the block chain circularly  *)
(* from the cursor, and NULL exactly when the chain has no such block.     *)

C27_NextFitFromCursor ==
  (Idle /\ Coherent(Cur) /\ get_free_block = "nf") =>
    \A bs \in {Blocks(Cur)} :
      \A size \in BlockSizes :
        \A fit \in {FreeFits(Cur, bs, size)}, f \in {nf_get_free_block(Cur, size)} :
          /\ f.s.pc = "run"
          /\ (f.ret = NULL) <=> (fit = {})
          /\ f.ret # NULL => f.ret = FirstFrom(fit, CursorAtScan(Cur))

(* C28: in an arena that passes the consistency check, best-fit returns a  *)
(* free block whose size minus the required size is the minimum over the   *)
(* free blocks that are large enough, the lowest-address one among equals; *)
(* it returns NULL exactly when no free block is large enough, and its     *)
(* scan stops at the first exact match (else at heap_end).                 *)

C28_BestFitTightest ==
  (Idle /\ Coherent(Cur)) =>
    \A bs \in {Blocks(Cur)} :
      \A size \in BlockSizes :
        \A fit \in {FreeFits(Cur, bs, size)}, f \in {bf_get_free_block(Cur, size)} :
          /\ f.s.pc = "run"
          /\ (f.ret = NULL) <=> (fit = {})
          /\ f.ret # NULL =>
               /\ f.ret \in fit
               /\ \A b \in fit :
                    \/ GET_SIZE(Cur, f.ret) < GET_SIZE(Cur, b)
                    \/ GET_SIZE(Cur, f.ret) = GET_SIZE(Cur, b) /\ f.ret <= b
          /\ bf_scan_end(Cur, size, heap_start, -1)
               = IF \E b \in fit : GET_SIZE(Cur, b) = size
                   THEN FirstFrom({b \in fit : GET_SIZE(Cur, b) = size}, heap_start)
                   ELSE heap_end

\* under best-fit an allocate has just been given a block above a free
\* block that was large enough for it, but less tight
C28_Witness ==
  /\ Idle /\ Coherent(Cur)
  /\ get_free_block = "bf"
  /\ last.op = "malloc" /\ last.ret # NULL
  /\ \E b \in Blocks(Cur) :
       /\ b < PREV_PTR(last.ret)
       /\ GET_STATUS(Cur, b) = FREE
       /\ GET_SIZE(Cur, b) >= ROUND_UP(TYPE_SIZE + last.size + TYPE_SIZE)

(* C29: a call to any of the three policies changes no word of the heap    *)
(* (no boundary tag, no sentinel) and neither heap_start nor heap_end;     *)
(* first-fit and best-fit change no allocator state at all, and next-fit   *)
(* changes nothing but its cursor. (A scan that never returns is marked in *)
(* pc, which is no allocator state.)                                       *)

C29_PoliciesKeepHeap ==
  Idle =>
    \A size \in BlockSizes :
      /\ [ff_get_free_block(Cur, size).s EXCEPT !.pc = pc] = Cur
      /\ [bf_get_free_block(Cur, size).s EXCEPT !.pc = pc] = Cur
      /\ [nf_get_free_block(Cur, size).s EXCEPT !.pc = pc, !.next_block = next_block] = Cur

\* under next-fit an allocate has just returned, its scan has moved the
\* cursor to a block above heap_start, and the sentinels are in place
C29_Witness ==
  /\ Idle
  /\ get_free_block = "nf"
  /\ last.op = "malloc" /\ last.ret # NULL
  /\ next_block > heap_start /\ next_block < heap_end
  /\ GET(Cur, PREV_PTR(heap_start)) = PACK(0, ALLOC)
  /\ GET(Cur, heap_end) = PACK(0, ALLOC)

(* C30: under next-fit, between public calls (with an arena that passes    *)
(* the consistency check), the cursor a scan would start from, after the   *)
(* reset step, is heap_start or the header address of a block of the chain *)
(* from heap_start: never an address inside a block made by coalescing,    *)
(* nor one at or above heap_end.                                           *)

C30_CursorOnChain ==
  (Idle /\ Coherent(Cur) /\ get_free_block = "nf") =>
    /\ CursorAtScan(Cur) >= heap_start
    /\ CursorAtScan(Cur) < heap_end \/ CursorAtScan(Cur) = heap_start
    /\ CursorAtScan(Cur) \in Blocks(Cur) \cup {heap_start}

\* the live allocations of the chain bs: the header before the pointer is
\* an allocated block of the chain
LiveBlocks(s, bs) ==
  {l \in live : PREV_PTR(l.ptr) \in bs /\ GET_STATUS(s, PREV_PTR(l.ptr)) = ALLOC}

\* the block of the live allocation l reads the same in r as in s: header,
\* footer and every word of the payload
SameBlock(s, r, l) ==
  /\ GET(r, PREV_PTR(l.ptr)) = GET(s, PREV_PTR(l.ptr))
  /\ GET(r, HDR2FTR(s, PREV_PTR(l.ptr))) = GET(s, HDR2FTR(s, PREV_PTR(l.ptr)))
  /\ \A w \in Words(l.ptr, GET_SIZE(s, PREV_PTR(l.ptr)) - 2 * TYPE_SIZE) :
       GET(r, w) = GET(s, w)

(* C31: in an arena that passes the consistency check, allocate, resize    *)
(* and release leave the header, the footer and the payload of every live  *)
(* allocated block other than the one they act on as they were.            *)

C31_OtherBlocksKept ==
  (Idle /\ Coherent(Cur)) =>
    \A lb \in {LiveBlocks(Cur, Blocks(Cur))} :
      /\ \A n \in ReqSizes :
           \A r \in {mm_malloc(Cur, n).s} :
             r.pc = "run" => \A l \in lb : SameBlock(Cur, r, l)
      /\ \A t \in lb :
           /\ \A r \in {mm_free(Cur, t.ptr).s} :
                \A l \in lb \ {t} : SameBlock(Cur, r, l)
           /\ \A n \in ReqSizes :
                \A r \in {mm_realloc(Cur, t.ptr, n).s} :
                  r.pc = "run" => \A l \in lb \ {t} : SameBlock(Cur, r, l)

\* request sizes of the reuse scenario: blocks that are split off the
\* initial free block, one that takes it whole (940) and one that makes the
\* arena grow, so that its release shrinks the arena (1000)
ReuseSizes == {8, 40, 900, 940, 1000}

(* C32: under first-fit, from a freshly initialized heap, for all          *)
(* n >= m > 0 with a successful p = allocate(n): after release(p),         *)
(* q = allocate(m) returns p, whether or not the second allocation splits  *)
(* the block and whether or not the release shrank the arena.              *)

C32_FirstFitReuses ==
  (Idle /\ last.op = "init" /\ get_free_block = "ff") =>
    \A n \in ReuseSizes, m \in ReuseSizes :
      n >= m =>
        \A p \in {mm_malloc(Cur, n)} :
          p.ret # NULL =>
            /\ p.s.pc = "run"
            /\ mm_malloc(mm_free(p.s, p.ret).s, m).ret = p.ret

\* under first-fit, allocate(1000), release and allocate(8) have just been
\* made on a fresh heap: the release had shrunk the arena to nothing, so
\* the break is no longer where init had put it, and the only block handed
\* out starts at heap_start
C32_Witness ==
  /\ Idle /\ get_free_block = "ff"
  /\ ncalls = 3
  /\ last.op = "malloc" /\ last.ret = heap_start + TYPE_SIZE
  /\ live = {[ptr |-> last.ret, n |-> last.size]}
  /\ released = {}
  /\ ds_heap_brk > ds_heap_start + CHUNKSIZE
  /\ ds_heap_brk < ds_heap_start + 2 * CHUNKSIZE

(* C33: every public call (init, allocate, zeroAllocate, resize, release)  *)
(* makes at most one request to the data segment; in particular a resize   *)
(* that moves its block never both grows the segment in its allocate and   *)
(* shrinks it in its release.                                              *)

C33_OneProviderCall ==
  Idle =>
    /\ \A n \in ReqSizes : mm_malloc(Cur, n).s.sbrk_calls <= 1
    /\ \A a \in CallocArgs : mm_calloc(Cur, a[1], a[2]).s.sbrk_calls <= 1
    /\ \A p \in LivePtrs \cup released \cup {NULL} : mm_free(Cur, p).s.sbrk_calls <= 1
    /\ \A p \in LivePtrs \cup {NULL}, n \in ReqSizes :
         mm_realloc(Cur, p, n).s.sbrk_calls <= 1

----------------------------------------------------------------------------
(* A caller that also calls mm_check between its calls. mm_check assigns   *)
(* no global and writes no word; it ends the process in mm_panic.          *)

MmCheck ==
  /\ Running
  /\ \E r \in {mm_check(Cur)} :
       /\ Becomes(IF r = "panic" THEN [Cur EXCEPT !.pc = "exit"] ELSE Cur)
       /\ last' = Call("check", NULL, 0, r)
  /\ ncalls' = ncalls + 1
  /\ UNCHANGED <<live, released>>

NextChk ==
  \/ \E ap \in Policies : mm_initialized = 0 /\ MmInit(ap)
  \/ \E n \in ReqSizes : ncalls < MaxCallsChk /\ Malloc(n)
  \/ \E ptr \in LivePtrs, n \in ReqSizes : ncalls < MaxCallsChk /\ Realloc(ptr, n)
  \/ \E ptr \in LivePtrs \cup released : ncalls < MaxCallsChk /\ Free(ptr)
  \/ ncalls < MaxCallsChk /\ MmCheck

SpecChk == Init /\ [][NextChk]_vars

\* the blocks the walk of mm_check can meet: the blocks of the chain and
\* the block of size 0 at which the walk would stop
Met(s) ==
  Blocks(s) \cup (IF ChainEnd(s, s.heap_start) < s.heap_end
                    THEN {ChainEnd(s, s.heap_start)} ELSE {})

(* C34: checkConsistency changes no allocator state, and a second call     *)
(* right after one that returned gives the same result; it reports a       *)
(* coherent block structure exactly when every block met in the walk from  *)
(* heap_start has its footer equal to its header and the walk lands on     *)
(* heap_end exactly, and it ends the process exactly when a block met has  *)
(* a footer that differs from its header.                                  *)

C34_CheckReadsOnly ==
  /\ [](last.op = "check" =>
          /\ (last.ret = "coherent") <=>
               /\ ChainEnd(Cur, heap_start) = heap_end
               /\ \A b \in Blocks(Cur) : GET(Cur, b) = GET(Cur, HDR2FTR(Cur, b))
          /\ (last.ret = "panic") <=>
               \E b \in Met(Cur) : GET(Cur, b) # GET(Cur, HDR2FTR(Cur, b))
          /\ (pc = "exit") <=> (last.ret = "panic")
          /\ mm_check(Cur) = last.ret)
  /\ [][last'.op = "check" =>
          UNCHANGED <<mem, fill, ds_heap_start, ds_heap_brk, heap_start, heap_end,
                      get_free_block, next_block, mm_initialized>>]_vars

\* checkConsistency has just ended the process: the arena holds a block
\* whose footer differs from its header
C34_Witness ==
  /\ last.op = "check" /\ last.ret = "panic" /\ pc = "exit"
  /\ \E b \in Blocks(Cur) : GET(Cur, b) # GET(Cur, HDR2FTR(Cur, b))

----------------------------------------------------------------------------
(* Tag and sentinel accesses stay in the data segment.                     *)

(* A caller that allocates, resizes and releases live pointers only.       *)

RzSizes == {8, 1000}
RzNewSizes == {0, 40}

NextRz ==
  \/ \E ap \in Policies : mm_initialized = 0 /\ MmInit(ap)
  \/ \E n \in RzSizes : ncalls < MaxCallsRz /\ Malloc(n)
  \/ \E ptr \in LivePtrs, n \in RzNewSizes : ncalls < MaxCallsRz /\ Realloc(ptr, n)
  \/ \E ptr \in LivePtrs : ncalls < MaxCallsRz /\ Free(ptr)

SpecRz == Init /\ [][NextRz]_vars

\* C35: in every state reached by init, allocate, resize and release on
\* valid arguments, every word a call reads or writes as a tag or sentinel
\* lies in the provider's range [ds_heap_start, ds_heap_brk): no call of
\* mm_init, mm_malloc, mm_realloc or mm_free on a live pointer touches a tag
\* outside it.
C35_TagsInSegment ==
  /\ (pc = "run" /\ mm_initialized = 0) =>
       \A ap \in Policies : ~mm_init(Cur, ap).oob
  /\ Idle =>
       /\ \A n \in ReqSizes : ~mm_malloc(Cur, n).s.oob
       /\ \A p \in LivePtrs : ~mm_free(Cur, p).s.oob
       /\ \A p \in LivePtrs, n \in ReqSizes : ~mm_realloc(Cur, p, n).s.oob

----------------------------------------------------------------------------
(* Live allocations and allocated blocks.                                  *)

\* the payload addresses of the blocks of the chain that are marked allocated
AllocatedPayloads(s) ==
  {p + TYPE_SIZE : p \in {b \in Blocks(s) : GET_STATUS(s, b) = ALLOC}}

\* C36: after any sequence of allocate, resize and release calls on valid
\* arguments the allocated blocks of the chain walked from heap_start are
\* exactly the live allocations: every pointer returned and not yet released
\* is the payload of an allocated block of the chain, and no block of the
\* chain is marked allocated without a live pointer to it.
C36_LiveIsAllocated ==
  Idle => AllocatedPayloads(Cur) = LivePtrs

----------------------------------------------------------------------------
(* The shell: eval of one foreground command line, its children and the    *)
(* SIGCHLD handler (csapsh). The job list has one entry at most; addjob,   *)
(* getjob_pid, getjob_jid and deletejob act on it.                         *)

ShCmds == 1..MaxCmd

\* the children waitpid(-1, WNOHANG | WUNTRACED) reports: zombies and
\* children that stopped and were not reported yet
Zombies(s) == {i \in ShCmds : s.child[i] = "exited"}
Stopped(s) == {i \in ShCmds : s.child[i] = "stopped"}

\* the job list (jobcontrol): addjob enters the job with nproc processes in
\* the given state, getjob_pid and getjob_jid find it while it is entered,
\* deletejob removes it
addjob(s, nproc, state) == [s EXCEPT !.job = TRUE, !.nproc_cur = nproc, !.state = state]
getjob(s) == s.job
deletejob(s) == [s EXCEPT !.job = FALSE, !.state = "none"]

\* eval, lines 199-203: a command line of ncmd commands is run; SIGCHLD is
\* blocked before the first fork
ShBlock(ncmd) ==
  /\ sh.epc = "prompt"
  /\ sh' = [sh EXCEPT !.epc = "fork", !.ncmd = ncmd, !.blocked = TRUE]
  /\ UNCHANGED <<mmvars, mc>>

\* eval, lines 225-311: one round of the loop in the parent: fork the next
\* child; after the last one SIGCHLD is unblocked
ShFork ==
  /\ sh.epc = "fork"
  /\ sh.forked < sh.ncmd
  /\ sh' = [sh EXCEPT !.forked = @ + 1,
                      !.child[sh.forked + 1] = "running",
                      !.blocked = IF sh.forked + 1 = sh.ncmd THEN FALSE ELSE @,
                      !.epc = IF sh.forked + 1 = sh.ncmd THEN "addjob" ELSE @]
  /\ UNCHANGED <<mmvars, mc>>

\* eval, lines 314-318: addjob enters the job with all its processes, then
\* waitfg is called
ShAddJob ==
  /\ sh.epc = "addjob"
  /\ sh' = [addjob(sh, sh.ncmd, "fg") EXCEPT !.epc = "waitfg"]
  /\ UNCHANGED <<mmvars, mc>>

\* waitfg, lines 401-414: one test of the loop; it returns when the job is
\* gone or no longer in the foreground, and sleeps otherwise
ShWaitfg ==
  /\ sh.epc = "waitfg"
  /\ sh' = IF getjob(sh) /\ sh.state = "fg"
             THEN [sh EXCEPT !.polled = TRUE]
             ELSE [sh EXCEPT !.epc = "done"]
  /\ UNCHANGED <<mmvars, mc>>

\* a running child of the command line terminates: the kernel sends SIGCHLD
ChildExit(i) ==
  /\ sh.child[i] = "running"
  /\ sh' = [sh EXCEPT !.child[i] = "exited", !.pending = TRUE]
  /\ UNCHANGED <<mmvars, mc>>

\* a running child is stopped by SIGTSTP or SIGSTOP: the kernel sends SIGCHLD
ChildStop(i) ==
  /\ sh.child[i] = "running"
  /\ sh' = [sh EXCEPT !.child[i] = "stopped", !.pending = TRUE]
  /\ UNCHANGED <<mmvars, mc>>

\* sigchld_handler, lines 421-457, run when SIGCHLD is pending and not
\* blocked: every zombie is reaped and every stop is taken note of; the job
\* of the child, if getjob_pid finds one, loses a process per zombie, is
\* deleted with its last process and is marked stopped otherwise
sigchld_handler(s) ==
  LET gone == Cardinality(Zombies(s))
      s1 == [s EXCEPT
               !.pending = FALSE,
               !.child = [i \in ShCmds |->
                            IF s.child[i] = "exited" THEN "reaped"
                            ELSE IF s.child[i] = "stopped" THEN "stopseen"
                            ELSE s.child[i]]]
  IN IF ~getjob(s) THEN s1
     ELSE IF gone > 0 /\ s.nproc_cur - gone = 0
       THEN deletejob([s1 EXCEPT !.nproc_cur = 0])
     ELSE [s1 EXCEPT !.nproc_cur = @ - gone,
                     !.state = IF Stopped(s) # {} THEN "stopped" ELSE @]

SigChld ==
  /\ sh.pending
  /\ ~sh.blocked
  /\ sh' = sigchld_handler(sh)
  /\ UNCHANGED <<mmvars, mc>>

NextSh ==
  \/ \E ncmd \in ShCmds : ShBlock(ncmd)
  \/ ShFork
  \/ ShAddJob
  \/ ShWaitfg
  \/ \E i \in ShCmds : ChildExit(i)
  \/ \E i \in ShCmds : ChildStop(i)
  \/ SigChld

SpecSh == Init /\ [][NextSh]_vars

\* the shell runs whenever it can, and a pending SIGCHLD that is not blocked
\* is delivered; nothing is assumed about the children
SpecShFair ==
  /\ SpecSh
  /\ WF_vars(\E ncmd \in ShCmds : ShBlock(ncmd))
  /\ WF_vars(ShFork)
  /\ WF_vars(ShAddJob)
  /\ WF_vars(ShWaitfg)
  /\ WF_vars(SigChld)

\* all processes of the job have terminated, or the job has been stopped
JobOver ==
  /\ sh.ncmd > 0
  /\ sh.forked = sh.ncmd
  /\ \A i \in 1..sh.ncmd : sh.child[i] # "running"

\* C37: for every foreground job and every interleaving of SIGCHLD with
\* eval, waitfg eventually returns once all processes of the job have
\* terminated or the job has been stopped.
C37_WaitfgReturns == JobOver ~> (sh.epc = "done")

----------------------------------------------------------------------------
(* The burger server: the order list, the customers' threads and the       *)
(* kitchen threads (client.c). Customer c issues the order (node) c. The   *)
(* list is used without a lock, so the threads interleave statement by     *)
(* statement; count is an unsigned int.                                    *)

Clients == 1..MaxClients
Kitchens == 1..MaxKitchen
UINT(n) == n % 2^CountBits

\* the nodes linked from node o on, o included
RECURSIVE Linked(_, _, _)
Linked(m, o, fuel) ==
  IF o = 0 \/ fuel = 0 THEN {} ELSE {o} \cup Linked(m, m.next[o], fuel - 1)

\* issue_order, lines 297-316: the new node is set up and linked at the tail
IssueLink(c) ==
  /\ mc.cpc[c] = "connect"
  /\ mc' = [IF mc.tail = 0
              THEN [mc EXCEPT !.head = c, !.tail = c]
              ELSE [mc EXCEPT !.next[mc.tail] = c, !.tail = c]
            EXCEPT !.next[c] = 0, !.is_ready[c] = FALSE, !.cpc[c] = "icount"]
  /\ UNCHANGED <<mmvars, sh>>

\* issue_order, line 318: count++; issue_order returns and serve_client
\* locks the mutex of the order (line 469), which no other thread ever locks
IssueCount(c) ==
  /\ mc.cpc[c] = "icount"
  /\ mc' = [mc EXCEPT !.count = UINT(@ + 1), !.cpc[c] = "check"]
  /\ UNCHANGED <<mmvars, sh>>

\* serve_client, line 470: the test of the wait loop; the customer is served
\* when the order is ready (line 473) and is about to wait otherwise
ClientCheck(c) ==
  /\ mc.cpc[c] = "check"
  /\ mc' = [mc EXCEPT !.cpc[c] = IF mc.is_ready[c] THEN "served" ELSE "towait"]
  /\ UNCHANGED <<mmvars, sh>>

\* serve_client, line 471: pthread_cond_wait releases the mutex and blocks
\* until the condition is signalled
ClientWait(c) ==
  /\ mc.cpc[c] = "towait"
  /\ mc' = [mc EXCEPT !.waiting[c] = TRUE, !.cpc[c] = "blocked"]
  /\ UNCHANGED <<mmvars, sh>>

\* kitchen_task, line 367, and get_order, lines 327-329: with an empty list
\* get_order returns NULL and the thread sleeps and tries again; otherwise
\* the head is the target node
GetHead(k) ==
  /\ mc.kpc[k] = "loop"
  /\ mc' = IF mc.head = 0 THEN mc
           ELSE [mc EXCEPT !.order[k] = mc.head, !.kpc[k] = "unlink"]
  /\ UNCHANGED <<mmvars, sh>>

\* get_order, lines 332-337: the head is unlinked
GetUnlink(k) ==
  /\ mc.kpc[k] = "unlink"
  /\ mc' = [IF mc.head = mc.tail
              THEN [mc EXCEPT !.head = 0, !.tail = 0]
              ELSE [mc EXCEPT !.head = mc.next[mc.head]]
            EXCEPT !.kpc[k] = "gcount"]
  /\ UNCHANGED <<mmvars, sh>>

\* get_order, lines 339-342: count--; get_order returns the target node
GetCount(k) ==
  /\ mc.kpc[k] = "gcount"
  /\ mc' = [mc EXCEPT !.count = UINT(@ - 1), !.kpc[k] = "cook",
                      !.taken[mc.order[k]] = @ + 1]
  /\ UNCHANGED <<mmvars, sh>>

\* kitchen_task, lines 373-381: the burger is made and the order is marked
\* ready
KitchenReady(k) ==
  /\ mc.kpc[k] = "cook"
  /\ mc' = [mc EXCEPT !.is_ready[mc.order[k]] = TRUE, !.kpc[k] = "signal"]
  /\ UNCHANGED <<mmvars, sh>>

\* kitchen_task, line 382: pthread_cond_signal wakes the customer if it is
\* blocked on the condition and does nothing otherwise; the woken customer
\* takes the mutex again and tests the loop
KitchenSignal(k) ==
  /\ mc.kpc[k] = "signal"
  /\ mc' = [IF mc.waiting[mc.order[k]]
              THEN [mc EXCEPT !.waiting[mc.order[k]] = FALSE,
                              !.cpc[mc.order[k]] = "check"]
              ELSE mc
            EXCEPT !.kpc[k] = "loop", !.order[k] = 0]
  /\ UNCHANGED <<mmvars, sh>>

ClientStep(c) ==
  \/ IssueLink(c)
  \/ IssueCount(c)
  \/ ClientCheck(c)
  \/ ClientWait(c)

KitchenStep(k) ==
  \/ GetHead(k)
  \/ GetUnlink(k)
  \/ GetCount(k)
  \/ KitchenReady(k)
  \/ KitchenSignal(k)

NextMc ==
  \/ \E c \in Clients : ClientStep(c)
  \/ \E k \in Kitchens : KitchenStep(k)

SpecMc == Init /\ [][NextMc]_vars

\* every thread that can take a step eventually takes one
SpecMcFair ==
  /\ SpecMc
  /\ \A c \in Clients : WF_vars(ClientStep(c))
  /\ \A k \in Kitchens : WF_vars(KitchenStep(k))

\* the orders whose issue_order has returned
Issued == {o \in Clients : mc.cpc[o] \in {"check", "towait", "blocked", "served"}}

\* no thread is inside issue_order or get_order
ListQuiet ==
  /\ \A c \in Clients : mc.cpc[c] # "icount"
  /\ \A k \in Kitchens : mc.kpc[k] \notin {"unlink", "gcount"}

\* C38: for every interleaving of the customers' issue_order and the
\* kitchen threads' get_order, each issued order is handed to exactly one
\* kitchen thread: it is never returned twice, it is on the list until it
\* is taken, and whenever no thread is inside the two functions the list
\* count is the number of orders issued and not yet taken.
C38_OrdersHandedOnce ==
  /\ \A o \in Clients : mc.taken[o] <= 1
  /\ ListQuiet =>
       /\ {o \in Issued : mc.taken[o] = 0} = Linked(mc, mc.head, MaxClients)
       /\ mc.count = Cardinality({o \in Issued : mc.taken[o] = 0})

\* C39: every customer that has issued an order leaves its wait loop after a
\* kitchen thread has marked the order ready, whatever the interleaving of
\* the kitchen's write of is_ready and its signal with the customer's test
\* of is_ready and its condition wait.
C39_NoLostWakeup ==
  \A c \in Clients : (c \in Issued /\ mc.is_ready[c]) ~> (mc.cpc[c] = "served")

====
